---- MODULE Spec2Model ----
(***************************************************************************)
(* Model of pyditz.py: the TimeDistribution accumulator (day and ISO-week  *)
(* buckets, add, __add__) and Issue.total_time (the walk over an issue's   *)
(* log events that extracts the in-progress intervals).                    *)
(*                                                                         *)
(* Representation.  A date is its proleptic Gregorian ordinal, as in       *)
(* date.toordinal().  A datetime is a record [d |-> ordinal, s |-> second  *)
(* of the day]; a timedelta is its whole number of seconds (sub-second     *)
(* precision is dropped).  A defaultdict(timedelta) is a function whose    *)
(* DOMAIN is the set of keys present.  An optional value (None or v) is    *)
(* the sequence << >> or << v >>.                                          *)
(***************************************************************************)
EXTENDS Integers, Sequences, FiniteSets, TLC

VARIABLES t, u, r, last, nops,
          earliest, latest, cum_time, dtstart, pc, result, error,
          emitted, ev, nevents, prevts,
          arg, ret

distVars == <<t, u, r, last, nops>>
extVars  == <<earliest, latest, cum_time, dtstart, pc, result, error,
              emitted, ev, nevents, prevts>>
callVars == <<arg, ret>>
vars     == <<t, u, r, last, nops,
              earliest, latest, cum_time, dtstart, pc, result, error,
              emitted, ev, nevents, prevts,
              arg, ret>>

(***************************************************************************)
(* Bounds of the model.                                                    *)
(***************************************************************************)
MaxOps    == 3      \* add / merge operations in one run of the API model
MaxDayOff == 1      \* input dates are BaseDate .. BaseDate + MaxDayOff
MaxAdds   == 2      \* add operations in one run of the add model
MaxEvents == 4      \* log events of one issue

(***************************************************************************)
(* Calendar arithmetic of datetime.date (proleptic Gregorian calendar).    *)
(***************************************************************************)
DaySeconds == 86400
HourSeconds == 3600

IsLeap(y) == (y % 4 = 0) /\ ((y % 100 # 0) \/ (y % 400 = 0))

DaysBeforeYear(y) == (y - 1) * 365 + (y - 1) \div 4 - (y - 1) \div 100 + (y - 1) \div 400

DaysInMonth(y, m) ==
    IF m = 2 THEN (IF IsLeap(y) THEN 29 ELSE 28)
    ELSE IF m \in {4, 6, 9, 11} THEN 30 ELSE 31

RECURSIVE DaysBeforeMonth(_, _)
DaysBeforeMonth(y, m) ==
    IF m = 1 THEN 0 ELSE DaysBeforeMonth(y, m - 1) + DaysInMonth(y, m - 1)

\* date(y, m, d).toordinal()
ymd2ord(y, m, d) == DaysBeforeYear(y) + DaysBeforeMonth(y, m) + d

\* date.fromordinal(n).year
ord2year(n) ==
    LET n0   == n - 1
        n400 == n0 \div 146097
        r400 == n0 % 146097
        n100 == r400 \div 36524
        r100 == r400 % 36524
        n4   == r100 \div 1461
        r4   == r100 % 1461
        n1   == r4 \div 365
        y    == n400 * 400 + n100 * 100 + n4 * 4 + n1 + 1
    IN IF n1 = 4 \/ n100 = 4 THEN y - 1 ELSE y

\* ordinal of the Monday that starts ISO week 1 of the year
isoweek1monday(year) ==
    LET firstday     == ymd2ord(year, 1, 1)
        firstweekday == (firstday + 6) % 7
        week1monday  == firstday - firstweekday
    IN IF firstweekday > 3 THEN week1monday + 7 ELSE week1monday

\* day.isocalendar()[:2], the (ISO year, ISO week) of a date
isocalendar(day) ==
    LET year == ord2year(day)
        week == (day - isoweek1monday(year)) \div 7
    IN IF week < 0
         THEN <<year - 1, (day - isoweek1monday(year - 1)) \div 7 + 1>>
         ELSE IF week >= 52 /\ day >= isoweek1monday(year + 1)
                THEN <<year + 1, 1>>
                ELSE <<year, week + 1>>

(***************************************************************************)
(* datetime and timedelta arithmetic.                                      *)
(***************************************************************************)
datetime(y, m, d, hh, mm) == [d |-> ymd2ord(y, m, d), s |-> hh * HourSeconds + mm * 60]

\* datetime(*day.timetuple()[:3]): midnight of a date
Midnight(day) == [d |-> day, s |-> 0]

\* datetime + timedelta
DtPlus(dt, secs) ==
    LET tot == dt.s + secs
    IN [d |-> dt.d + tot \div DaySeconds, s |-> tot % DaySeconds]

\* datetime - timedelta
DtMinus(dt, secs) == DtPlus(dt, 0 - secs)

\* datetime - datetime, a timedelta
DtDiff(a, b) == (a.d - b.d) * DaySeconds + (a.s - b.s)

DtLess(a, b) == a.d < b.d \/ (a.d = b.d /\ a.s < b.s)

DtLeq(a, b) == a = b \/ DtLess(a, b)

(***************************************************************************)
(* TimeDistribution.                                                       *)
(***************************************************************************)
DefaultSplitHour == 4

EmptyDict == [k \in {} |-> 0]

\* TimeDistribution.__init__
NewDistribution(splithour) ==
    [splithour |-> splithour, days |-> EmptyDict, weeks |-> EmptyDict, total |-> 0]

\* defaultdict(timedelta): d[key], the value read (timedelta() when missing)
DictGet(dict, key) == IF key \in DOMAIN dict THEN dict[key] ELSE 0

\* defaultdict(timedelta): d[key] += duration
DictAdd(dict, key, duration) ==
    IF key \in DOMAIN dict
      THEN [dict EXCEPT ![key] = @ + duration]
      ELSE dict @@ (key :> duration)

\* _add_to_day without the line self.total += duration
AddToDay_NoTotal(td, day, duration) ==
    [td EXCEPT !.days  = DictAdd(@, day, duration),
               !.weeks = DictAdd(@, isocalendar(day), duration)]

\* TimeDistribution._add_to_day
AddToDay(td, day, duration) ==
    [td EXCEPT !.days  = DictAdd(@, day, duration),
               !.weeks = DictAdd(@, isocalendar(day), duration),
               !.total = @ + duration]

\* the loop over the whole days run as range(1, n + 1)
RECURSIVE AddWholeDays_OneMore(_, _, _, _)
AddWholeDays_OneMore(td, dstart, d, n) ==
    IF d > n THEN td
    ELSE AddWholeDays_OneMore(AddToDay(td, dstart + d, DaySeconds), dstart, d + 1, n)

\* for d in range(1, n): self._add_to_day(dstart + timedelta(d), timedelta(1)),
\* run from d up to n - 1
RECURSIVE AddWholeDays(_, _, _, _)
AddWholeDays(td, dstart, d, n) ==
    IF d >= n THEN td
    ELSE AddWholeDays(AddToDay(td, dstart + d, DaySeconds), dstart, d + 1, n)

\* the duration add() credits to the last day, dend
LastDayCredit(dtend, dend, splithour) == DtDiff(dtend, Midnight(dend))

\* TimeDistribution.add
Add(td, dtstart_, dtend) ==
    LET dstart    == DtMinus(dtstart_, td.splithour * HourSeconds).d
        dend      == DtMinus(dtend, td.splithour * HourSeconds).d
        dstart00h == Midnight(dstart)
        dateline  == DtPlus(dstart00h, DaySeconds + td.splithour * HourSeconds)
    IN IF DtLess(dateline, dtend)
         THEN LET t1 == AddToDay(td, dstart, DtDiff(dateline, dtstart_))
                  t2 == AddWholeDays(t1, dstart, 1, dend - dstart)
              IN AddToDay(t2, dend, LastDayCredit(dtend, dend, td.splithour))
         ELSE AddToDay(td, dstart, DtDiff(dtend, dtstart_))

\* __add__ where a key of other replaces the value of self, as dict.update
MergeDict_Update(mydict, otherdict) ==
    [key \in (DOMAIN mydict) \cup (DOMAIN otherdict) |->
        IF key \in DOMAIN otherdict THEN otherdict[key] ELSE mydict[key]]

\* __add__, one attribute: the result's dictionary
MergeDict(mydict, otherdict) ==
    [key \in (DOMAIN mydict) \cup (DOMAIN otherdict) |->
        DictGet(mydict, key) + DictGet(otherdict, key)]

\* __add__, one attribute: an operand's dictionary after mydict[key] was read
\* for every key of the union
TouchDict(dict, keys) ==
    [key \in (DOMAIN dict) \cup keys |-> DictGet(dict, key)]

\* __add__ without other.total
MergeResult_TotalOfSelf(self, other) ==
    [splithour |-> DefaultSplitHour,
     days      |-> MergeDict(self.days, other.days),
     weeks     |-> MergeDict(self.weeks, other.weeks),
     total     |-> self.total]

\* __add__ that takes the week buckets of self alone
MergeResult_WeeksOfSelf(self, other) ==
    [splithour |-> DefaultSplitHour,
     days      |-> MergeDict(self.days, other.days),
     weeks     |-> self.weeks,
     total     |-> self.total + other.total]

\* TimeDistribution.__add__: the new distribution
MergeResult(self, other) ==
    [splithour |-> DefaultSplitHour,
     days      |-> MergeDict(self.days, other.days),
     weeks     |-> MergeDict(self.weeks, other.weeks),
     total     |-> self.total + other.total]

\* TimeDistribution.__add__: an operand after the call
MergeOperand(self, other) ==
    [self EXCEPT !.days  = TouchDict(@, DOMAIN other.days),
                 !.weeks = TouchDict(@, DOMAIN other.weeks)]

(***************************************************************************)
(* Inputs of the API model: intervals [start, end) with start <= end.      *)
(***************************************************************************)
SplitHours == {0, 4, 23}

\* Sunday 2008-12-28, the last day of ISO week 2008-52
BaseDate == ymd2ord(2008, 12, 28)

StartOfDay == 3 * HourSeconds + 45 * 60

Lengths == {0, 15 * 60, 90 * 60, DaySeconds + 90 * 60}

Starts == {[d |-> BaseDate + k, s |-> StartOfDay] : k \in 0..MaxDayOff}

Intervals == {<<st, DtPlus(st, len)>> : st \in Starts, len \in Lengths}

None == << >>

Some(v) == <<v>>

\* the state of Issue.total_time before the call, left alone by the API model
ExtIdle ==
    /\ earliest = None
    /\ latest = None
    /\ cum_time = NewDistribution(DefaultSplitHour)
    /\ dtstart = None
    /\ pc = "idle"
    /\ result = None
    /\ error = None
    /\ emitted = << >>
    /\ ev = None
    /\ nevents = 0
    /\ prevts = None
    /\ arg = None
    /\ ret = None

NoOp == [op |-> "none"]

\* t = TimeDistribution(sh); u = TimeDistribution(sh)
Init ==
    /\ \E sh \in SplitHours :
          /\ t = NewDistribution(sh)
          /\ u = NewDistribution(sh)
    /\ r = None
    /\ last = NoOp
    /\ nops = 0
    /\ ExtIdle

\* t.add(dtstart, dtend)
AddT ==
    /\ nops < MaxOps
    /\ \E iv \in Intervals :
          /\ t' = Add(t, iv[1], iv[2])
          /\ last' = [op |-> "add", obj |-> "t", start |-> iv[1], end |-> iv[2],
                      before |-> t]
    /\ nops' = nops + 1
    /\ UNCHANGED <<u, r>>
    /\ UNCHANGED <<extVars, callVars>>

\* u.add(dtstart, dtend)
AddU ==
    /\ nops < MaxOps
    /\ \E iv \in Intervals :
          /\ u' = Add(u, iv[1], iv[2])
          /\ last' = [op |-> "add", obj |-> "u", start |-> iv[1], end |-> iv[2],
                      before |-> u]
    /\ nops' = nops + 1
    /\ UNCHANGED <<t, r>>
    /\ UNCHANGED <<extVars, callVars>>

\* r = t + u
Merge ==
    /\ nops < MaxOps
    /\ r' = Some(MergeResult(t, u))
    /\ t' = MergeOperand(t, u)
    /\ u' = MergeOperand(u, t)
    /\ last' = [op |-> "merge", self |-> t, other |-> u, into |-> "r"]
    /\ nops' = nops + 1
    /\ UNCHANGED <<extVars, callVars>>

\* t += u, as cum_time += issue_time in report_progress_times
MergeAssign ==
    /\ nops < MaxOps
    /\ t' = MergeResult(t, u)
    /\ u' = MergeOperand(u, t)
    /\ last' = [op |-> "merge", self |-> t, other |-> u, into |-> "t"]
    /\ nops' = nops + 1
    /\ UNCHANGED r
    /\ UNCHANGED <<extVars, callVars>>

Next == AddT \/ AddU \/ Merge \/ MergeAssign

Spec == Init /\ [][Next]_vars

(***************************************************************************)
(* parse_status: the three regular expressions, matched at the start of    *)
(* the message as re.match does.  A match is None or the tuple of groups.  *)
(***************************************************************************)
WordChars ==
    { "a", "b", "c", "d", "e", "f", "g", "h", "i", "j", "k", "l", "m",
      "n", "o", "p", "q", "r", "s", "t", "u", "v", "w", "x", "y", "z",
      "A", "B", "C", "D", "E", "F", "G", "H", "I", "J", "K", "L", "M",
      "N", "O", "P", "Q", "R", "S", "T", "U", "V", "W", "X", "Y", "Z",
      "0", "1", "2", "3", "4", "5", "6", "7", "8", "9", "_" }

\* the literal lit occurs in s at position i
LitAt(s, i, lit) ==
    /\ i + Len(lit) - 1 <= Len(s)
    /\ SubSeq(s, i, i + Len(lit) - 1) = lit

\* \w+ is greedy: the position after the longest run of word characters at i
RECURSIVE WordEnd(_, _)
WordEnd(s, i) ==
    IF i <= Len(s) /\ SubSeq(s, i, i) \in WordChars THEN WordEnd(s, i + 1) ELSE i

\* CLOSE_STATUS = 'closed (?:issue )?with disposition (\w+)'
MatchClose(s) ==
    LET p == Len("closed ") + 1
        q == IF LitAt(s, p, "issue ") /\ LitAt(s, p + Len("issue "), "with disposition ")
               THEN p + Len("issue ")
               ELSE p
        w == q + Len("with disposition ")
    IN IF LitAt(s, 1, "closed ") /\ LitAt(s, q, "with disposition ") /\ WordEnd(s, w) > w
         THEN Some(<<SubSeq(s, w, WordEnd(s, w) - 1)>>)
         ELSE None

FromStates == {"unstarted", "in_progress", "paused", "closed"}

\* the to-states with closed accepted as well
ToStates_WithClosed == {"in_progress", "paused", "closed"}

\* the alternatives of the second group of CHANGE_STATUS
ToStates == {"in_progress", "paused"}

\* CHANGE_STATUS = 'changed status from (unstarted|in_progress|paused|closed)
\*                  to (in_progress|paused)'
MatchChange(s) ==
    LET p == Len("changed status from ") + 1
        ms == {<<a, b>> \in FromStates \X ToStates :
                  /\ LitAt(s, 1, "changed status from ")
                  /\ LitAt(s, p, a)
                  /\ LitAt(s, p + Len(a), " to ")
                  /\ LitAt(s, p + Len(a) + Len(" to "), b)}
    IN IF ms = {} THEN None ELSE Some(CHOOSE m \in ms : TRUE)

\* ASSIGN_STATUS = 'assigned to release '
MatchAssign(s) == IF LitAt(s, 1, "assigned to release ") THEN Some(<< >>) ELSE None

\* parse_status that answers (None, None) for a message no pattern matches
parse_status_Lenient(status) ==
    IF MatchClose(status) # None
      THEN [raised |-> FALSE, from |-> None, to |-> Some(MatchClose(status)[1][1])]
      ELSE IF MatchChange(status) # None
             THEN [raised |-> FALSE, from |-> Some(MatchChange(status)[1][1]),
                   to |-> Some(MatchChange(status)[1][2])]
             ELSE [raised |-> FALSE, from |-> None, to |-> None]

\* parse_status: (status_from, status_to), or ValueError
parse_status(status) ==
    IF MatchClose(status) # None
      THEN [raised |-> FALSE, from |-> None, to |-> Some(MatchClose(status)[1][1])]
      ELSE IF MatchChange(status) # None
             THEN [raised |-> FALSE, from |-> Some(MatchChange(status)[1][1]),
                   to |-> Some(MatchChange(status)[1][2])]
             ELSE IF MatchAssign(status) # None
                    THEN [raised |-> FALSE, from |-> None, to |-> None]
                    ELSE [raised |-> TRUE,
                          error |-> [type |-> "ValueError",
                                     msg |-> "Invalid status change message",
                                     arg |-> status]]

(***************************************************************************)
(* Issue.total_time: one pass over the log events of an issue.             *)
(***************************************************************************)
\* filtered() that tests earliest alone
filtered_EarliestOnly(timestamp) ==
    IF earliest # None /\ DtLess(timestamp, earliest[1]) THEN TRUE ELSE FALSE

\* the nested function filtered(timestamp)
filtered(timestamp) ==
    IF earliest # None /\ DtLess(timestamp, earliest[1]) THEN TRUE
    ELSE IF latest # None /\ DtLess(latest[1], timestamp) THEN TRUE
    ELSE FALSE

\* if status in ('created', 'commented'): continue
SkippedStatuses == {"created", "commented"}

\* the terminators without the disposition fixed
Terminators_PausedOnly == {"paused"}

\* the terminators with one more disposition
Terminators_WithWontfix == {"paused", "fixed", "wontfix"}

\* elif status_to in ('paused', 'fixed')
Terminators == {"paused", "fixed"}

\* an activation that is ignored while an interval is open
Activate_FirstWins(ds, timestamp) ==
    IF ~filtered(timestamp) /\ ds = None THEN Some(timestamp) ELSE ds

\* a filtered activation that drops the open interval
Activate_ResetWhenFiltered(ds, timestamp) ==
    IF ~filtered(timestamp) THEN Some(timestamp) ELSE None

\* if not filtered(timestamp): dtstart = timestamp
Activate(ds, timestamp) == IF ~filtered(timestamp) THEN Some(timestamp) ELSE ds

\* the interval stays open after cum_time.add
CloseInterval_KeepOpen(ds) == ds

\* dtstart = None, after cum_time.add(dtstart, timestamp)
CloseInterval(ds) == None

UnknownStatus(status_to) ==
    [type |-> "ValueError", msg |-> "Unknown status", arg |-> status_to]

\* timestamps of the log events, in the order of time
EventTimes ==
    { datetime(2008, 12, 28, 3, 45), datetime(2008, 12, 28, 5, 15),
      datetime(2008, 12, 29, 3, 45), datetime(2008, 12, 29, 5, 15) }

\* values of the earliest and latest arguments
FilterTimes == {None, Some(datetime(2008, 12, 28, 12, 0)), Some(datetime(2008, 12, 29, 3, 45))}

\* the status field of the log events
Statuses ==
    { "created", "commented",
      "changed status from unstarted to in_progress",
      "changed status from in_progress to paused",
      "closed issue with disposition fixed",
      "closed with disposition wontfix",
      "assigned to release 0.1 from unassigned",
      "changed status from unstarted to closed" }

\* issue.total_time(earliest, latest) is entered: cum_time = TimeDistribution(),
\* dtstart = None
InitExtract ==
    /\ earliest \in FilterTimes
    /\ latest \in FilterTimes
    /\ cum_time = NewDistribution(DefaultSplitHour)
    /\ dtstart = None
    /\ pc = "loop"
    /\ result = None
    /\ error = None
    /\ emitted = << >>
    /\ ev = None
    /\ nevents = 0
    /\ prevts = None
    /\ arg = None
    /\ ret = None
    /\ t = NewDistribution(DefaultSplitHour)
    /\ u = NewDistribution(DefaultSplitHour)
    /\ r = None
    /\ last = NoOp
    /\ nops = 0

\* one iteration of the loop over self.log_events, which come in non-decreasing
\* order of timestamp; ev and emitted record the event, the state before it and
\* the intervals passed to cum_time.add
Step ==
    /\ pc = "loop"
    /\ nevents < MaxEvents
    /\ \E timestamp \in EventTimes, status \in Statuses :
          /\ IF prevts = None THEN TRUE ELSE DtLeq(prevts[1], timestamp)
          /\ prevts' = Some(timestamp)
          /\ ev' = Some([timestamp |-> timestamp, status |-> status,
                         dtstart |-> dtstart, emitted |-> emitted,
                         cum_time |-> cum_time])
          /\ IF status \in SkippedStatuses
               THEN UNCHANGED <<dtstart, cum_time, emitted, pc, error>>
               ELSE LET ps == parse_status(status)
                    IN IF ps.raised
                         THEN /\ pc' = "raised"
                              /\ error' = Some(ps.error)
                              /\ UNCHANGED <<dtstart, cum_time, emitted>>
                         ELSE IF ps.to = Some("in_progress")
                           THEN /\ dtstart' = Activate(dtstart, timestamp)
                                /\ UNCHANGED <<cum_time, emitted, pc, error>>
                         ELSE IF ps.to # None /\ ps.to[1] \in Terminators
                           THEN IF dtstart # None
                                  THEN /\ cum_time' = Add(cum_time, dtstart[1], timestamp)
                                       /\ emitted' = Append(emitted, <<dtstart[1], timestamp>>)
                                       /\ dtstart' = CloseInterval(dtstart)
                                       /\ UNCHANGED <<pc, error>>
                                  ELSE UNCHANGED <<dtstart, cum_time, emitted, pc, error>>
                         ELSE IF ps.to # None
                           THEN /\ pc' = "raised"
                                /\ error' = Some(UnknownStatus(ps.to[1]))
                                /\ UNCHANGED <<dtstart, cum_time, emitted>>
                         ELSE UNCHANGED <<dtstart, cum_time, emitted, pc, error>>
    /\ nevents' = nevents + 1
    /\ UNCHANGED <<earliest, latest, result>>
    /\ UNCHANGED <<distVars, callVars>>

\* the log is exhausted: return cum_time
Return ==
    /\ pc = "loop"
    /\ pc' = "returned"
    /\ result' = Some(cum_time)
    /\ UNCHANGED <<earliest, latest, cum_time, dtstart, error, emitted, ev, nevents, prevts>>
    /\ UNCHANGED <<distVars, callVars>>

NextExtract == Step \/ Return

SpecExtract == InitExtract /\ [][NextExtract]_vars

(***************************************************************************)
(* The add model: one distribution, every split hour, add() applied to    *)
(* intervals that include the ones of the doctests.                        *)
(***************************************************************************)
AllSplitHours == 0..23

DoctestIntervals ==
    { <<datetime(2008, 11, 15, 13, 45), datetime(2008, 11, 15, 15, 15)>>,
      <<datetime(2008, 12, 15, 3, 45),  datetime(2008, 12, 23, 5, 15)>>,
      <<datetime(2008, 12, 29, 1, 0),   datetime(2009, 1, 5, 5, 0)>> }

\* t = TimeDistribution(splithour=sh)
InitAdd ==
    /\ \E sh \in AllSplitHours : t = NewDistribution(sh)
    /\ u = NewDistribution(DefaultSplitHour)
    /\ r = None
    /\ last = NoOp
    /\ nops = 0
    /\ ExtIdle

\* t.add(dtstart, dtend)
AddInterval ==
    /\ nops < MaxAdds
    /\ \E iv \in Intervals \cup DoctestIntervals :
          /\ t' = Add(t, iv[1], iv[2])
          /\ last' = [op |-> "add", obj |-> "t", start |-> iv[1], end |-> iv[2],
                      before |-> t]
    /\ nops' = nops + 1
    /\ UNCHANGED <<u, r>>
    /\ UNCHANGED <<extVars, callVars>>

NextAdd == AddInterval

SpecAdd == InitAdd /\ [][NextAdd]_vars

(***************************************************************************)
(* The parse model: parse_status applied to one log message.               *)
(***************************************************************************)
Dispositions == {"fixed", "wontfix", "reorg_2"}

\* text after the last group: nothing, a separate word, a character that is
\* not a word character, a word character
Suffixes == {"", " now", ".", "x"}

CloseMessages ==
    {"closed " \o opt \o "with disposition " \o w \o suf :
        opt \in {"", "issue "}, w \in Dispositions, suf \in Suffixes}

ChangeMessages ==
    {"changed status from " \o a \o " to " \o b \o suf :
        a \in {"unstarted", "in_progress", "paused", "closed"},
        b \in {"in_progress", "paused"}, suf \in Suffixes}

AssignMessages ==
    {"assigned to release " \o rest : rest \in {"", "0.1 from unassigned", "x"}}

\* messages that no pattern matches at the start of the text
OtherMessages ==
    {"changed status from " \o a \o " to " \o b :
        a \in {"unstarted", "in_progress", "paused", "closed"},
        b \in {"closed", "unstarted", "fixed", "Paused", ""}}
    \cup {"changed status from " \o a \o " to " \o b :
            a \in {"fixed", "Closed", ""}, b \in {"in_progress", "paused"}}
    \cup { "", "created", "commented",
           "closed with disposition ", "closed issue with disposition ",
           "closed with disposition -fixed", "closed  with disposition fixed",
           "closed issue issue with disposition fixed",
           "closed issue", "closed", "Closed with disposition fixed",
           " closed with disposition fixed",
           "issue closed with disposition fixed",
           "changed status from unstarted to  paused",
           "changed status from unstarted to",
           " changed status from unstarted to paused",
           "was changed status from unstarted to paused",
           "assigned to release", " assigned to release 0.1",
           "unassigned to release 0.1", "Assigned to release 0.1" }

Messages == CloseMessages \cup ChangeMessages \cup AssignMessages \cup OtherMessages

InitParse ==
    /\ t = NewDistribution(DefaultSplitHour)
    /\ u = NewDistribution(DefaultSplitHour)
    /\ r = None
    /\ last = NoOp
    /\ nops = 0
    /\ earliest = None
    /\ latest = None
    /\ cum_time = NewDistribution(DefaultSplitHour)
    /\ dtstart = None
    /\ pc = "idle"
    /\ result = None
    /\ error = None
    /\ emitted = << >>
    /\ ev = None
    /\ nevents = 0
    /\ prevts = None
    /\ arg \in {Some(m) : m \in Messages}
    /\ ret = None

\* parse_status(status) is called and returns or raises
ParseStatus ==
    /\ arg # None
    /\ ret = None
    /\ ret' = Some(parse_status(arg[1]))
    /\ UNCHANGED <<arg, distVars, extVars>>

NextParse == ParseStatus

SpecParse == InitParse /\ [][NextParse]_vars

(***************************************************************************)
(* format_h_m: a timedelta, held as whole seconds, rendered as text.       *)
(***************************************************************************)
\* the division by 60.0 with the fraction dropped
RoundMinutes_Floor(seconds) == seconds \div 60

\* round(seconds / 60.0) for seconds >= 0: halves round away from zero
RoundMinutes(seconds) == (seconds + 30) \div 60

\* '%d' % n
Fmt_d(n) == ToString(n)

\* '%02d' % n
Fmt_02d(n) == IF n < 10 THEN "0" \o ToString(n) ELSE ToString(n)

\* format_h_m(delta), delta.days and delta.seconds taken from the seconds
format_h_m(delta) ==
    LET days    == delta \div DaySeconds
        seconds == delta % DaySeconds
        hours   == 24 * days + seconds \div HourSeconds
        minutes == RoundMinutes(seconds % HourSeconds)
    IN IF hours # 0
         THEN Fmt_d(hours) \o "h" \o Fmt_02d(minutes) \o "'"
         ELSE Fmt_d(minutes) \o "'"

MaxFormatDays == 1  \* whole days in the durations of the format model

\* whole hours and seconds within the hour of the durations formatted
FormatHours == {0, 1, 23}

FormatSeconds == {0, 29, 30, 31, 89, 90, 154, 1799, 3535, 3569, 3570, 3599}

Durations ==
    {d * DaySeconds + h * HourSeconds + sec :
        d \in 0..MaxFormatDays, h \in FormatHours, sec \in FormatSeconds}

InitFormat ==
    /\ t = NewDistribution(DefaultSplitHour)
    /\ u = NewDistribution(DefaultSplitHour)
    /\ r = None
    /\ last = NoOp
    /\ nops = 0
    /\ earliest = None
    /\ latest = None
    /\ cum_time = NewDistribution(DefaultSplitHour)
    /\ dtstart = None
    /\ pc = "idle"
    /\ result = None
    /\ error = None
    /\ emitted = << >>
    /\ ev = None
    /\ nevents = 0
    /\ prevts = None
    /\ arg \in {Some(delta) : delta \in Durations}
    /\ ret = None

\* format_h_m(delta) is called and returns
FormatHM ==
    /\ arg # None
    /\ ret = None
    /\ ret' = Some(format_h_m(arg[1]))
    /\ UNCHANGED <<arg, distVars, extVars>>

NextFormat == FormatHM

SpecFormat == InitFormat /\ [][NextFormat]_vars

(***************************************************************************)
(* report_txt: the lines of the text report of a distribution.             *)
(***************************************************************************)
\* date.fromordinal(n).month
ord2month(n) ==
    LET y   == ord2year(n)
        doy == n - DaysBeforeYear(y)
    IN CHOOSE m \in 1..12 :
          DaysBeforeMonth(y, m) < doy /\ doy <= DaysBeforeMonth(y, m) + DaysInMonth(y, m)

\* date.fromordinal(n).day
ord2day(n) == n - DaysBeforeYear(ord2year(n)) - DaysBeforeMonth(ord2year(n), ord2month(n))

RECURSIVE PadLeft(_, _, _)
PadLeft(s, width, fill) ==
    IF Len(s) >= width THEN s ELSE PadLeft(fill \o s, width, fill)

\* '%04d' % n
Fmt_04d(n) == PadLeft(ToString(n), 4, "0")

\* '%7s' % s, '%9s' % s
Fmt_s(width, s) == PadLeft(s, width, " ")

\* sorted(keys): the keys in ascending order
RECURSIVE sorted(_)
sorted(keys) ==
    IF keys = {} THEN << >>
    ELSE LET least == CHOOSE x \in keys : \A y \in keys : x <= y
         IN <<least>> \o sorted(keys \ {least})

\* last_week is kept when the year changes
LastWeekInYear_Keep(year, last_year, last_week) == last_week

\* if year != last_year: ... last_week = None
LastWeekInYear(year, last_year, last_week) ==
    IF Some(year) # last_year THEN None ELSE last_week

\* the loop of report_txt from the i-th day on
RECURSIVE ReportLines(_, _, _, _, _)
ReportLines(td, days, i, last_year, last_week) ==
    IF i > Len(days) THEN << >>
    ELSE LET day        == days[i]
             year       == isocalendar(day)[1]
             week       == isocalendar(day)[2]
             print_year == IF Some(year) # last_year THEN Fmt_04d(year) ELSE "    "
             in_year    == LastWeekInYear(year, last_year, last_week)
             print_week == IF Some(week) # in_year
                             THEN Fmt_02d(week) \o " "
                                    \o Fmt_s(7, format_h_m(DictGet(td.weeks, <<year, week>>)))
                             ELSE "          "
             line       == print_year \o " " \o print_week \o " "
                             \o Fmt_04d(ord2year(day)) \o "-" \o Fmt_02d(ord2month(day))
                             \o "-" \o Fmt_02d(ord2day(day))
                             \o " " \o Fmt_s(7, format_h_m(td.days[day]))
         IN <<line>> \o ReportLines(td, days, i + 1, Some(year), Some(week))

\* list(td.report_txt())
report_txt(td) ==
    ReportLines(td, sorted(DOMAIN td.days), 1, None, None)
        \o << "total " \o Fmt_s(9, format_h_m(td.total)) >>

\* intervals of the report model: the base intervals, the interval of the
\* doctest, and one hour on Monday 2007-12-31, a day of ISO week 2008-01
ReportIntervals ==
    Intervals
        \cup { <<datetime(2008, 12, 29, 1, 0),  datetime(2009, 1, 5, 5, 0)>>,
               <<datetime(2007, 12, 31, 10, 0), datetime(2007, 12, 31, 11, 0)>> }

InitReport ==
    /\ \E sh \in SplitHours : t = NewDistribution(sh)
    /\ u = NewDistribution(DefaultSplitHour)
    /\ r = None
    /\ last = NoOp
    /\ nops = 0
    /\ ExtIdle

\* t.add(dtstart, dtend); an earlier report is dropped
ReportAdd ==
    /\ nops < MaxAdds
    /\ \E iv \in ReportIntervals :
          /\ t' = Add(t, iv[1], iv[2])
          /\ last' = [op |-> "add", obj |-> "t", start |-> iv[1], end |-> iv[2],
                      before |-> t]
    /\ nops' = nops + 1
    /\ arg' = None
    /\ ret' = None
    /\ UNCHANGED <<u, r>>
    /\ UNCHANGED extVars

\* list(t.report_txt())
Report ==
    /\ ret = None
    /\ arg' = Some(t)
    /\ ret' = Some(report_txt(t))
    /\ UNCHANGED <<distVars, extVars>>

NextReport == ReportAdd \/ Report

SpecReport == InitReport /\ [][NextReport]_vars

(***************************************************************************)
(* Properties of TimeDistribution.                                         *)
(***************************************************************************)
RECURSIVE SumOver(_, _)
SumOver(dict, keys) ==
    IF keys = {} THEN 0
    ELSE LET k == CHOOSE x \in keys : TRUE
         IN dict[k] + SumOver(dict, keys \ {k})

SumDict(dict) == SumOver(dict, DOMAIN dict)

\* the distributions that exist in a state of the API model
Distributions == {t, u} \cup {r[i] : i \in DOMAIN r}

\* the distribution the last add() was applied to, after the call
Added == IF last.obj = "t" THEN t ELSE u

ShiftedDate(dt, splithour) == DtMinus(dt, splithour * HourSeconds).d

\* the first instant after the start at which the bucketing day rolls over
Dateline(dt, splithour) ==
    DtPlus(Midnight(ShiftedDate(dt, splithour)), DaySeconds + splithour * HourSeconds)

\* the last add() crossed a day boundary
LastAddCrossed ==
    /\ last.op = "add"
    /\ DtLess(Dateline(last.start, last.before.splithour), last.end)

\* C1: in every state reached by add and merge operations, the total of every
\* distribution equals the sum of its day buckets and the sum of its week
\* buckets.
C1_BucketConsistency ==
    \A td \in Distributions :
        /\ td.total = SumDict(td.days)
        /\ td.total = SumDict(td.weeks)

\* C1 witness: a merge of two non-empty distributions with different day keys
C1_Witness ==
    /\ last.op = "merge"
    /\ last.self.total > 0
    /\ last.other.total > 0
    /\ DOMAIN last.self.days # DOMAIN last.other.days
    /\ r # None
    /\ r[1].total = last.self.total + last.other.total

\* C2 (as claimed): add(start, end) increases total by exactly end - start,
\* for every split hour, whether or not the interval crosses a day boundary.
C2_DurationConservation ==
    last.op = "add" =>
        Added.total = last.before.total + DtDiff(last.end, last.start)

\* C3 (as claimed): an add() that crosses a day boundary credits day sd with
\* dateline - start, every day strictly between sd and ed with 24 hours, day
\* ed with end - (midnight of ed + splitHour hours), and no other day.
C3_SplitRule ==
    LastAddCrossed =>
        LET sh == last.before.splithour
            sd == ShiftedDate(last.start, sh)
            ed == ShiftedDate(last.end, sh)
            credit(d) ==
                IF d = sd THEN DtDiff(Dateline(last.start, sh), last.start)
                ELSE IF d = ed
                       THEN DtDiff(last.end, DtPlus(Midnight(ed), sh * HourSeconds))
                       ELSE IF sd < d /\ d < ed THEN DaySeconds ELSE 0
        IN /\ DOMAIN Added.days = (DOMAIN last.before.days) \cup (sd..ed)
           /\ \A d \in DOMAIN Added.days :
                 Added.days[d] = DictGet(last.before.days, d) + credit(d)

\* the interval of the multi-day doctest, added to an empty distribution with
\* splithour 4
MultiDayAdded ==
    /\ last.op = "add"
    /\ last.before = NewDistribution(4)
    /\ last.start = datetime(2008, 12, 15, 3, 45)
    /\ last.end = datetime(2008, 12, 23, 5, 15)

MultiDayBuckets ==
    [d \in ymd2ord(2008, 12, 14)..ymd2ord(2008, 12, 23) |->
        IF d = ymd2ord(2008, 12, 14) THEN 15 * 60
        ELSE IF d = ymd2ord(2008, 12, 23) THEN 5 * HourSeconds + 15 * 60
        ELSE 24 * HourSeconds]

C5_WeekDayAgreement ==
    \A td \in Distributions :
        /\ \A wk \in DOMAIN td.weeks :
              td.weeks[wk] =
                  SumOver(td.days, {d \in DOMAIN td.days : isocalendar(d) = wk})
        /\ \A d \in DOMAIN td.days : isocalendar(d) \in DOMAIN td.weeks

\* C5 witness: a merge result with two weeks, one of them fed by two days
C5_Witness ==
    /\ last.op = "merge"
    /\ r # None
    /\ Cardinality(DOMAIN r[1].weeks) >= 2
    /\ \E d1, d2 \in DOMAIN r[1].days :
          /\ d1 # d2
          /\ isocalendar(d1) = isocalendar(d2)
          /\ r[1].days[d1] > 0
          /\ r[1].days[d2] > 0
    /\ last.self.total > 0
    /\ last.other.total > 0

(***************************************************************************)
(* Properties of Issue.total_time.  ev[1] is the event of the last         *)
(* iteration together with dtstart, emitted and cum_time as they were      *)
(* before it.                                                              *)
(***************************************************************************)
\* status_to of an event that was parsed without error, else None
ToOf(e) ==
    IF e.status \in {"created", "commented"} \/ parse_status(e.status).raised
      THEN None
      ELSE parse_status(e.status).to

\* the timestamp passes the earliest/latest window
InWindow(ts) ==
    /\ earliest = None \/ DtLeq(earliest[1], ts)
    /\ latest = None \/ DtLeq(ts, latest[1])

\* the last event was a paused or fixed terminator met with an open interval
TerminatedOpen ==
    /\ ev # None
    /\ ToOf(ev[1]) \in {Some("paused"), Some("fixed")}
    /\ ev[1].dtstart # None

\* C6: every emitted interval starts inside the earliest/latest window, and a
\* terminator met with an open interval emits [start, timestamp) whole,
\* whatever the window says about the timestamp of the terminator.
C6_FilterOnStartsOnly ==
    /\ \A i \in DOMAIN emitted : InWindow(emitted[i][1])
    /\ TerminatedOpen =>
          emitted = Append(ev[1].emitted, <<ev[1].dtstart[1], ev[1].timestamp>>)

\* C6 witness: an interval was emitted whose end is later than latest
C6_Witness ==
    /\ TerminatedOpen
    /\ latest # None
    /\ DtLess(latest[1], ev[1].timestamp)
    /\ emitted # << >>
    /\ emitted[Len(emitted)][2] = ev[1].timestamp

\* the last event was an activation outside the window
FilteredActivation ==
    /\ ev # None
    /\ ToOf(ev[1]) = Some("in_progress")
    /\ ~InWindow(ev[1].timestamp)

\* C7: a filtered-out activation leaves the state as it was: the open start
\* (or its absence) is kept and nothing is emitted.
C7_FilteredActivationFrame ==
    FilteredActivation =>
        /\ dtstart = ev[1].dtstart
        /\ emitted = ev[1].emitted
        /\ cum_time = ev[1].cum_time
        /\ error = None

\* C7 witness: an activation was filtered out while an interval was open
C7_Witness ==
    /\ FilteredActivation
    /\ ev[1].dtstart # None
    /\ dtstart = ev[1].dtstart

\* C8: a paused or fixed terminator met with an open interval emits exactly
\* [start, timestamp) and leaves no interval open; met with no open interval
\* it emits nothing and leaves none open.
C8_TerminatorStep ==
    (ev # None /\ ToOf(ev[1]) \in {Some("paused"), Some("fixed")}) =>
        /\ dtstart = None
        /\ error = None
        /\ IF ev[1].dtstart # None
             THEN /\ emitted = Append(ev[1].emitted,
                                      <<ev[1].dtstart[1], ev[1].timestamp>>)
                  /\ cum_time = Add(ev[1].cum_time, ev[1].dtstart[1], ev[1].timestamp)
             ELSE /\ emitted = ev[1].emitted
                  /\ cum_time = ev[1].cum_time

\* C8 witness: a closure with disposition fixed ended an open interval
C8_Witness ==
    /\ ev # None
    /\ ev[1].status = "closed issue with disposition fixed"
    /\ ev[1].dtstart # None
    /\ Len(emitted) = Len(ev[1].emitted) + 1
    /\ dtstart = None

\* the last event was a closure
ClosedEvent == ev # None /\ MatchClose(ev[1].status) # None

Disposition == MatchClose(ev[1].status)[1][1]

\* C9 (as claimed): a closure with any disposition never fails, and met with
\* an open interval it emits [start, timestamp) and leaves none open.
C9_AnyDispositionOriginal ==
    ClosedEvent =>
        /\ error = None
        /\ pc # "raised"
        /\ ev[1].dtstart # None =>
              /\ emitted = Append(ev[1].emitted,
                                  <<ev[1].dtstart[1], ev[1].timestamp>>)
              /\ dtstart = None

\* C9 (amended): a closure with disposition fixed met with an open interval
\* emits [start, timestamp) and leaves none open; a closure with a disposition
\* other than fixed, paused and in_progress fails with ValueError 'Unknown
\* status', carrying the disposition, and emits nothing.
C9_DispositionAmended ==
    ClosedEvent =>
        IF Disposition = "fixed"
          THEN /\ error = None
               /\ pc # "raised"
               /\ dtstart = None
               /\ ev[1].dtstart # None =>
                     emitted = Append(ev[1].emitted,
                                      <<ev[1].dtstart[1], ev[1].timestamp>>)
          ELSE Disposition \notin {"paused", "in_progress"} =>
                  /\ pc = "raised"
                  /\ error = Some([type |-> "ValueError", msg |-> "Unknown status",
                                   arg |-> Disposition])
                  /\ emitted = ev[1].emitted
                  /\ result = None

\* C9 witness: a closure with disposition wontfix met an open interval
C9_Witness ==
    /\ ClosedEvent
    /\ Disposition = "wontfix"
    /\ ev[1].dtstart # None
    /\ pc = "raised"

\* the event is neither created nor commented, and its message is rejected by
\* parse_status or gives a status_to that total_time does not know
BadEvent(e) ==
    /\ e.status \notin {"created", "commented"}
    /\ \/ e.status = "changed status from unstarted to closed"
       \/ parse_status(e.status).raised
       \/ /\ ToOf(e) # None
          /\ ToOf(e)[1] \notin {"in_progress", "paused", "fixed"}

\* C10: a bad event makes total_time fail at that event with an error and no
\* distribution is returned, whatever was emitted before; no bad event is
\* passed over; created and commented events change nothing.
C10_FailStop ==
    /\ ev # None =>
          /\ BadEvent(ev[1]) =>
                /\ pc = "raised"
                /\ error # None
                /\ result = None
                /\ emitted = ev[1].emitted
          /\ ev[1].status \in {"created", "commented"} =>
                /\ error = None
                /\ dtstart = ev[1].dtstart
                /\ emitted = ev[1].emitted
                /\ cum_time = ev[1].cum_time
    /\ pc = "raised" => (ev # None /\ BadEvent(ev[1]) /\ result = None)
    /\ result # None => (pc = "returned" /\ error = None /\ result = Some(cum_time))

\* C10 witness: the failure came after an interval had been completed
C10_Witness ==
    /\ pc = "raised"
    /\ ev # None
    /\ ev[1].status = "changed status from unstarted to closed"
    /\ Len(emitted) >= 1
    /\ result = None

\* the last event was an activation inside the window
AcceptedActivation ==
    /\ ev # None
    /\ ToOf(ev[1]) = Some("in_progress")
    /\ InWindow(ev[1].timestamp)

\* cum_time.add applied to the intervals seq[i], seq[i + 1], ... in turn
RECURSIVE AddAll(_, _, _)
AddAll(td, seq, i) ==
    IF i > Len(seq) THEN td
    ELSE AddAll(Add(td, seq[i][1], seq[i][2]), seq, i + 1)

\* C11: an accepted activation becomes the open start, also when an interval
\* was open already, and emits nothing; an interval that is emitted starts at
\* the open start; every other event that does not fail keeps the open start;
\* the distribution returned holds the emitted intervals and nothing else, so
\* an interval still open at the end of the log counts for nothing.
C11_LastActivationWins ==
    /\ AcceptedActivation =>
          /\ dtstart = Some(ev[1].timestamp)
          /\ emitted = ev[1].emitted
          /\ cum_time = ev[1].cum_time
    /\ (ev # None /\ Len(emitted) > Len(ev[1].emitted)) =>
          /\ ev[1].dtstart # None
          /\ emitted[Len(emitted)][1] = ev[1].dtstart[1]
          /\ dtstart = None
    /\ (ev # None /\ error = None /\ ~AcceptedActivation
          /\ ToOf(ev[1]) \notin {Some("paused"), Some("fixed")}) =>
          dtstart = ev[1].dtstart
    /\ cum_time = AddAll(NewDistribution(DefaultSplitHour), emitted, 1)
    /\ pc = "returned" => result = Some(cum_time)

\* C11 witness: the log ended after an activation had replaced an open start,
\* and the interval left open is not in the distribution returned
C11_Witness ==
    /\ pc = "returned"
    /\ AcceptedActivation
    /\ ev[1].dtstart # None
    /\ ev[1].dtstart[1] # ev[1].timestamp
    /\ dtstart = Some(ev[1].timestamp)
    /\ Len(emitted) >= 1
    /\ result[1].total = SumOver([i \in DOMAIN emitted |->
                                     AddAll(NewDistribution(DefaultSplitHour),
                                            <<emitted[i]>>, 1).total],
                                 DOMAIN emitted)

\* C20: with the events in non-decreasing order of timestamp, every emitted
\* interval has start <= end and starts no earlier than the end of the
\* interval emitted before it.
C20_IntervalsOrdered ==
    \A i \in DOMAIN emitted :
        /\ DtLeq(emitted[i][1], emitted[i][2])
        /\ i > 1 => DtLeq(emitted[i - 1][2], emitted[i][1])

\* C20 witness: two intervals were emitted, the second later than the first
C20_Witness ==
    /\ Len(emitted) >= 2
    /\ DtLess(emitted[1][1], emitted[1][2])
    /\ DtLess(emitted[1][2], emitted[2][1])
    /\ DtLess(emitted[2][1], emitted[2][2])

(***************************************************************************)
(* Properties of __add__.                                                  *)
(***************************************************************************)
\* what two distributions are compared by: day buckets, week buckets, total
Buckets(td) == [days |-> td.days, weeks |-> td.weeks, total |-> td.total]

\* a distribution that holds one interval
Single(splithour, iv) == Add(NewDistribution(splithour), iv[1], iv[2])

\* third operands: the distributions t and u as the last operation left them,
\* and the distributions of one interval that starts on the base date
ThirdOperands ==
    {t, u} \cup {Single(t.splithour, iv) : iv \in {i \in Intervals : i[1].d = BaseDate}}

Disjoint(iv1, iv2) == DtLeq(iv1[2], iv2[1]) \/ DtLeq(iv2[2], iv1[1])

\* the distribution the last merge returned
Merged == IF last.into = "r" THEN r[1] ELSE t

\* C12: after a merge a + b, the result equals b + a; for every third operand
\* c, (a + b) + c equals a + (b + c); and a + empty and empty + a equal a, as
\* do b + empty and empty + b equal b: in day buckets, week buckets and total.
C12_MergeMonoid ==
    last.op = "merge" =>
        /\ Buckets(Merged) = Buckets(MergeResult(last.other, last.self))
        /\ \A c \in ThirdOperands :
              Buckets(MergeResult(Merged, c))
                  = Buckets(MergeResult(last.self, MergeResult(last.other, c)))
        /\ \A a \in {last.self, last.other} :
              /\ Buckets(MergeResult(a, NewDistribution(DefaultSplitHour))) = Buckets(a)
              /\ Buckets(MergeResult(NewDistribution(DefaultSplitHour), a)) = Buckets(a)

\* C12 witness: t and u hold time in different days and were merged
C12_Witness ==
    /\ last.op = "merge"
    /\ last.into = "r"
    /\ last.self.total > 0
    /\ last.other.total > 0
    /\ \E d \in DOMAIN last.self.days : d \notin DOMAIN last.other.days
    /\ \E d \in DOMAIN last.other.days : d \notin DOMAIN last.self.days
    /\ \E d \in DOMAIN last.other.days :
          d \in DOMAIN last.self.days /\ last.self.days[d] # last.other.days[d]

\* C13: when the operands of the last merge have the same split hour and hold
\* one interval each, and the two intervals are disjoint, the merge result has
\* the day buckets, week buckets and total of one distribution of that split
\* hour to which the two intervals were added, in either order.
C13_Additivity ==
    (last.op = "merge" /\ last.into = "r"
        /\ last.self.splithour = last.other.splithour) =>
        \A iv1 \in Intervals :
            last.self = Single(last.self.splithour, iv1) =>
                \A iv2 \in Intervals :
                    ( /\ Disjoint(iv1, iv2)
                      /\ last.other = Single(last.other.splithour, iv2) ) =>
                        /\ Buckets(r[1])
                             = Buckets(Add(last.self, iv2[1], iv2[2]))
                        /\ Buckets(r[1])
                             = Buckets(Add(last.other, iv1[1], iv1[2]))

\* C13 witness: two disjoint intervals of non-zero length that share a day
\* bucket were added to t and to u, and t and u were merged
C13_Witness ==
    /\ last.op = "merge"
    /\ last.into = "r"
    /\ last.self.splithour = last.other.splithour
    /\ \E iv1, iv2 \in Intervals :
          /\ Disjoint(iv1, iv2)
          /\ iv1[1] # iv1[2]
          /\ iv2[1] # iv2[2]
          /\ last.self = Single(last.self.splithour, iv1)
          /\ last.other = Single(last.other.splithour, iv2)
          /\ (DOMAIN last.self.days) \cap (DOMAIN last.other.days) # {}
          /\ r[1].total = last.self.total + last.other.total

\* C14 (as claimed): no day bucket and no week bucket of any distribution,
\* merge operands and merge result included, holds a zero duration.
C14_NoZeroEntries ==
    \A td \in Distributions :
        /\ \A d \in DOMAIN td.days : td.days[d] # 0
        /\ \A wk \in DOMAIN td.weeks : td.weeks[wk] # 0

\* C18 (as claimed): after result = A + B the day buckets, the week buckets
\* and the total of A and of B are what they were before the call.
C18_MergeKeepsOperands ==
    last.op = "merge" =>
        /\ u = last.other
        /\ last.into = "r" => t = last.self

\* C15: a message 'closed [issue ]with disposition W...' parses to (None, W)
\* with W the whole run of word characters; 'changed status from A to B...'
\* with A in {unstarted, in_progress, paused, closed} and B in {in_progress,
\* paused} parses to (A, B) whatever follows B; 'assigned to release ...'
\* parses to (None, None); every other message raises ValueError carrying
\* the text.
C15_Classification ==
    ret # None =>
        /\ \A opt \in {"", "issue "}, w \in Dispositions, suf \in Suffixes :
              arg[1] = "closed " \o opt \o "with disposition " \o w \o suf =>
                  ret[1] = [raised |-> FALSE, from |-> None,
                            to |-> Some(IF suf = "x" THEN w \o "x" ELSE w)]
        /\ \A a \in {"unstarted", "in_progress", "paused", "closed"},
              b \in {"in_progress", "paused"}, suf \in Suffixes :
              arg[1] = "changed status from " \o a \o " to " \o b \o suf =>
                  ret[1] = [raised |-> FALSE, from |-> Some(a), to |-> Some(b)]
        /\ arg[1] \in AssignMessages =>
              ret[1] = [raised |-> FALSE, from |-> None, to |-> None]
        /\ arg[1] \in OtherMessages =>
              /\ ret[1].raised
              /\ ret[1].error.type = "ValueError"
              /\ ret[1].error.arg = arg[1]

\* C15 witness: a 'changed status' message with the to-state closed was refused
C15_Witness ==
    /\ ret # None
    /\ arg[1] = "changed status from in_progress to closed"
    /\ ret[1].raised
    /\ ret[1].error.arg = arg[1]

\* the decimal digits of a rendered number, read back
DigitOf(c) == CHOOSE n \in 0..9 : ToString(n) = c

RECURSIVE ReadNat(_, _, _, _)
ReadNat(s, i, j, acc) ==
    IF i > j THEN acc ELSE ReadNat(s, i + 1, j, 10 * acc + DigitOf(SubSeq(s, i, i)))

\* the position of the letter h in a rendered duration, 0 when there is none
RECURSIVE FindH(_, _)
FindH(s, i) ==
    IF i > Len(s) THEN 0 ELSE IF SubSeq(s, i, i) = "h" THEN i ELSE FindH(s, i + 1)

\* the hours and minutes fields of a rendered duration; hours 0 when the text
\* has no hours field
Rendered(s) ==
    LET h == FindH(s, 1)
    IN [hours    |-> IF h = 0 THEN 0 ELSE ReadNat(s, 1, h - 1, 0),
        minutes  |-> ReadNat(s, h + 1, Len(s) - 1, 0),
        hasHours |-> h # 0,
        quote    |-> SubSeq(s, Len(s), Len(s)),
        mdigits  |-> Len(s) - 1 - h]

\* C16: the hours H and minutes M rendered by format_h_m satisfy
\* H*60 + M = round(total seconds / 60), halves rounded up; the hours field
\* is printed exactly when H is not 0, and then M has two digits; 3535 seconds
\* render as 59' and 1 day + 154 seconds as 24h03'.
C16_FormatRoundTrip ==
    ret # None =>
        LET f == Rendered(ret[1])
        IN /\ f.quote = "'"
           /\ 2 * (f.hours * 60 + f.minutes) * 60 <= 2 * arg[1] + 60
           /\ 2 * (f.hours * 60 + f.minutes) * 60 > 2 * arg[1] - 60
           /\ f.hasHours <=> f.hours # 0
           /\ f.hasHours => f.mdigits = 2
           /\ arg[1] = 3535 => ret[1] = "59'"
           /\ arg[1] = DaySeconds + 154 => ret[1] = "24h03'"

\* C16 witness: 1 day + 154 seconds was rendered as 24h03'
C16_Witness ==
    /\ ret # None
    /\ arg[1] = DaySeconds + 154
    /\ ret[1] = "24h03'"

\* C19 (as claimed): the minutes field rendered by format_h_m is in 0..59.
C19_MinutesInRange ==
    ret # None => Rendered(ret[1]).minutes \in 0..59

\* the fields of a day line of the report, read back from its text
LineDate(line) ==
    ymd2ord(ReadNat(line, 17, 20, 0), ReadNat(line, 22, 23, 0), ReadNat(line, 25, 26, 0))

LineYearLabel(line) == SubSeq(line, 1, 4)

LineWeekLabel(line) == SubSeq(line, 6, 15)

\* C17: the report has one line per day key, in ascending date order, then
\* one total line; a line carries the year label exactly when no earlier line
\* is of the same ISO year, and the week label with the week's total exactly
\* when no earlier line is of the same ISO year and week; the lines of one
\* ISO week are contiguous.
C17_ReportOrderAndGrouping ==
    ret # None =>
        LET lines  == ret[1]
            td     == arg[1]
            n      == Len(lines) - 1
            D(i)   == LineDate(lines[i])
            YW(i)  == isocalendar(D(i))
        IN /\ n = Cardinality(DOMAIN td.days)
           /\ {D(i) : i \in 1..n} = DOMAIN td.days
           /\ \A i \in 1..(n - 1) : D(i) < D(i + 1)
           /\ lines[n + 1] = "total " \o Fmt_s(9, format_h_m(td.total))
           /\ \A i \in 1..n : SubSeq(lines[i], 1, 5) # "total"
           /\ \A i \in 1..n :
                 /\ SubSeq(lines[i], 5, 5) = " "
                 /\ SubSeq(lines[i], 16, 16) = " "
                 /\ IF \E j \in 1..(i - 1) : YW(j)[1] = YW(i)[1]
                      THEN LineYearLabel(lines[i]) = "    "
                      ELSE /\ LineYearLabel(lines[i]) # "    "
                           /\ ReadNat(lines[i], 1, 4, 0) = YW(i)[1]
                 /\ IF \E j \in 1..(i - 1) : YW(j) = YW(i)
                      THEN LineWeekLabel(lines[i]) = "          "
                      ELSE /\ LineWeekLabel(lines[i]) # "          "
                           /\ ReadNat(lines[i], 6, 7, 0) = YW(i)[2]
                           /\ SubSeq(lines[i], 8, 15)
                                = " " \o Fmt_s(7, format_h_m(td.weeks[YW(i)]))
           /\ \A i, j, k \in 1..n :
                 (i < j /\ j < k /\ YW(i) = YW(k)) => YW(j) = YW(i)

\* C17 witness: a report whose consecutive lines are of week 1 of two ISO
\* years, and a report with two lines of one week
C17_Witness ==
    /\ ret # None
    /\ Len(ret[1]) >= 4
    /\ \E i \in 1..(Len(ret[1]) - 2) :
          /\ isocalendar(LineDate(ret[1][i]))[2] = isocalendar(LineDate(ret[1][i + 1]))[2]
          /\ isocalendar(LineDate(ret[1][i]))[1] # isocalendar(LineDate(ret[1][i + 1]))[1]
    /\ \E i \in 1..(Len(ret[1]) - 2) :
          isocalendar(LineDate(ret[1][i])) = isocalendar(LineDate(ret[1][i + 1]))

====
